---- MODULE Spec2Model ----
\* CandidateFilter of src/converter/candidate_filter.cc: the filter that
\* keeps, drops or stops the enumeration of conversion candidates.
\* State of the C++ object: seen_ (std::set<string>) and top_candidate_
\* (const Segment::Candidate *).  The other variables record the last
\* operation, its argument and its return value, so that properties of a
\* call can be stated.
EXTENDS Integers, Sequences, FiniteSets

\* Program constants.
INT_MAX == 2147483647

kMaxCandidatesSize == 200

kMinCost == 100

kCostOffset == 6907

kStructureCostOffset == 3453

kMinStructureCostOffset == 1151

kStopEnmerationCacheSize == 15

\* Bounds of the model.
\* FilterCandidate is called while fewer than kMaxCandidatesSize +
\* ExtraAccepts calls have returned GOOD_CANDIDATE in the request.
ExtraAccepts == 1

\* A context-sensitive candidate repeats an already seen value only while
\* fewer than MaxDupAccepts accepted calls did not grow seen_.
MaxDupAccepts == 1

\* The whole candidate set is fed at the ranks within ProbeWidth of a rank
\* the code compares against; one plain candidate is fed at the other ranks.
ProbeWidth == 1

\* 32-bit int arithmetic.  a + b on int is undefined when the sum leaves
\* the int range: a build either wraps the sum (two's complement) or
\* compares the mathematical sum (the optimiser assumes no overflow), which
\* is above every int when it overflows upwards and below every int when
\* it overflows downwards.
INT_MIN == -INT_MAX - 1

OverflowsUp(a, b) == a > 0 /\ b > 0 /\ a > INT_MAX - b

OverflowsDown(a, b) == a < 0 /\ b < 0 /\ a < INT_MIN - b

\* a + b - 2^32 and a + b + 2^32, computed within the int range.
WrapUp(a, b) == ((a - INT_MAX) + (b - INT_MAX)) - 2

WrapDown(a, b) == ((a + INT_MAX) + (b + INT_MAX)) + 2

\* a + b < c
SumLess(a, b, c, wrap) ==
    IF OverflowsUp(a, b) THEN (IF wrap THEN WrapUp(a, b) < c ELSE FALSE)
    ELSE IF OverflowsDown(a, b) THEN (IF wrap THEN WrapDown(a, b) < c ELSE TRUE)
    ELSE a + b < c

\* c < a + b
LessSum(c, a, b, wrap) ==
    IF OverflowsUp(a, b) THEN (IF wrap THEN c < WrapUp(a, b) ELSE TRUE)
    ELSE IF OverflowsDown(a, b) THEN (IF wrap THEN c < WrapDown(a, b) ELSE FALSE)
    ELSE c < a + b

max(a, b) == IF a < b THEN b ELSE a

\* Collaborators: POSMatcher, Util::CharsLen, Segment::Candidate.
GetLastNameId == 1

GetFirstNameId == 2

NounPrefixId == 3

OtherId == 4

IsNounPrefix(id) == id = NounPrefixId

\* Segment::Candidate::learning_type is a set of flags; "&" tests one.
CONTEXT_SENSITIVE == "CONTEXT_SENSITIVE"

\* The length in bytes of the UTF-8 character that starts with byte b.
OneCharLen(b) == IF b < 128 THEN 1
                 ELSE IF b < 224 THEN 2
                 ELSE IF b < 240 THEN 3
                 ELSE 4

RECURSIVE CharsLenFrom(_, _)
CharsLenFrom(str, begin) ==
    IF begin > Len(str) THEN 0
    ELSE 1 + CharsLenFrom(str, begin + OneCharLen(str[begin]))

\* The number of characters (not bytes) of a UTF-8 string.
CharsLen(str) == CharsLenFrom(str, 1)

\* Surface texts.  A value is named by a number; Text(v) is its UTF-8
\* string: value 1 is the one-character string HIRAGANA A (3 bytes), value
\* v > 1 is that character followed by the decimal digits of v.
RECURSIVE Digits(_)
Digits(n) == IF n < 10 THEN <<48 + n>>
             ELSE Append(Digits(n \div 10), 48 + (n % 10))

Text(v) == IF v = 1 THEN <<227, 129, 130>> ELSE <<227, 129, 130>> \o Digits(v)

NULL == [null |-> TRUE]

GOOD_CANDIDATE == "GOOD_CANDIDATE"
BAD_CANDIDATE == "BAD_CANDIDATE"
STOP_ENUMERATION == "STOP_ENUMERATION"
NO_RESULT == "NO_RESULT"

\* seen_ and top_candidate_ are the members of CandidateFilter.  The others
\* observe the last operation: its name (op), the argument and the return
\* value of FilterCandidate (candidate, result), seen_.size() and whether
\* candidate->value was in seen_ when the operation began (candidate_size,
\* was_seen), and the number of GOOD_CANDIDATE results since the last Reset
\* (accepted_count).
VARIABLES seen_, top_candidate_, op, candidate, result, candidate_size,
          was_seen, accepted_count

vars == <<seen_, top_candidate_, op, candidate, result, candidate_size,
          was_seen, accepted_count>>

\* CandidateFilter::FilterCandidateInternal: the verdict and the new value
\* of top_candidate_.  The baseline is read only through its cost and its
\* structure_cost, which is what top_candidate_ holds here.

\* Mutant: the context-sensitive bypass is missing.
IsContextSensitive_Never(c) == FALSE

IsContextSensitive(c) == CONTEXT_SENSITIVE \in c.learning_type

\* Mutant: the baseline is set only while it is unset.
EstablishTop_OnlyWhenNull(seen, top, c) ==
    IF top = NULL
    THEN [cost |-> c.cost, structure_cost |-> c.structure_cost]
    ELSE top

EstablishTop(seen, top, c) ==
    IF top = NULL \/ Cardinality(seen) = 0
    THEN [cost |-> c.cost, structure_cost |-> c.structure_cost]
    ELSE top

\* Mutant: the cap fires at the limit only, not beyond it.
TooManyCandidates_OnlyAtLimit(size) == size + 1 = kMaxCandidatesSize

\* Mutant: the cap compares the size, not the size plus this candidate.
TooManyCandidates_NoPlusOne(size) == size >= kMaxCandidatesSize

TooManyCandidates(size) == size + 1 >= kMaxCandidatesSize

AlreadySeen(seen, c) == c.value \in seen

\* Mutant: the one-token test is off by one.
SingleSegment_OffByOne(c) == Len(c.nodes) = 0

SingleSegment(c) == Len(c.nodes) = 1

\* Mutant: the length in bytes instead of the length in characters.
SingleCharacter_Bytes(c) == Len(Text(c.value)) = 1

SingleCharacter(c) == CharsLen(Text(c.value)) = 1

NoAggressiveFilter(size, top_cost, c, wrap) ==
    /\ size < 3
    /\ LessSum(c.cost, top_cost, 2302, wrap)
    /\ c.structure_cost < 6907

\* Mutant: the noisy-prefix rule starts one rank late.
NoisyPrefix_OffByOne(size, c) ==
    /\ size > 3
    /\ Len(c.nodes) > 1
    /\ c.nodes[1].lid = c.nodes[1].rid
    /\ IsNounPrefix(c.nodes[1].lid)

NoisyPrefix(size, c) ==
    /\ size >= 3
    /\ Len(c.nodes) > 1
    /\ c.nodes[1].lid = c.nodes[1].rid
    /\ IsNounPrefix(c.nodes[1].lid)

CostOffset(c) ==
    IF c.lid = GetLastNameId \/ c.lid = GetFirstNameId
    THEN INT_MAX
    ELSE kCostOffset

HigherCost(top_cost, top_structure_cost, c, wrap) ==
    /\ SumLess(top_cost, CostOffset(c), c.cost, wrap)
    /\ SumLess(top_structure_cost, kMinStructureCostOffset,
               c.structure_cost, wrap)

\* Mutant: the enumeration stops one rank late.
HigherCostResult_OffByOne(size) ==
    IF size <= kStopEnmerationCacheSize THEN BAD_CANDIDATE
    ELSE STOP_ENUMERATION

HigherCostResult(size) ==
    IF size < kStopEnmerationCacheSize THEN BAD_CANDIDATE
    ELSE STOP_ENUMERATION

HigherStructureCost(top_structure_cost, c, wrap) ==
    SumLess(top_structure_cost, kStructureCostOffset, c.structure_cost, wrap)

FilterCandidateInternal(seen, top, c, wrap) ==
    IF IsContextSensitive(c)
    THEN [result |-> GOOD_CANDIDATE, top |-> top]
    ELSE
      LET size == Cardinality(seen)
          newtop == EstablishTop(seen, top, c)
          top_cost == max(kMinCost, newtop.cost)
          top_structure_cost == max(kMinCost, newtop.structure_cost)
          verdict ==
            IF TooManyCandidates(size) THEN STOP_ENUMERATION
            ELSE IF AlreadySeen(seen, c) THEN BAD_CANDIDATE
            ELSE IF SingleSegment(c) THEN GOOD_CANDIDATE
            ELSE IF SingleCharacter(c) THEN GOOD_CANDIDATE
            ELSE IF NoAggressiveFilter(size, top_cost, c, wrap)
                 THEN GOOD_CANDIDATE
            ELSE IF NoisyPrefix(size, c) THEN BAD_CANDIDATE
            ELSE IF HigherCost(top_cost, top_structure_cost, c, wrap)
                 THEN HigherCostResult(size)
            ELSE IF HigherStructureCost(top_structure_cost, c, wrap)
                 THEN BAD_CANDIDATE
            ELSE GOOD_CANDIDATE
      IN [result |-> verdict, top |-> newtop]

\* The builds whose outcomes can differ on this call: both when one of the
\* four additions overflows, one otherwise.
MayOverflow(seen, top, c) ==
    LET newtop == EstablishTop(seen, top, c)
        top_cost == max(kMinCost, newtop.cost)
        top_structure_cost == max(kMinCost, newtop.structure_cost)
    IN \/ OverflowsUp(top_cost, 2302)
       \/ OverflowsUp(top_cost, CostOffset(c))
       \/ OverflowsUp(top_structure_cost, kMinStructureCostOffset)
       \/ OverflowsUp(top_structure_cost, kStructureCostOffset)

Builds(seen, top, c) ==
    IF ~IsContextSensitive(c) /\ MayOverflow(seen, top, c) THEN BOOLEAN
    ELSE {TRUE}

\* The candidates fed to the filter.
Node(lid, rid) == [lid |-> lid, rid |-> rid]

PlainNodes == <<Node(OtherId, OtherId), Node(OtherId, OtherId)>>

NoisyNodes == <<Node(NounPrefixId, NounPrefixId), Node(OtherId, OtherId)>>

\* <<cost, structure_cost>> of the candidates: below kMinCost, ordinary,
\* just above the baseline 1000 plus an offset of the code, and INT_MAX.
CostPairs ==
    { <<50, 50>>, <<1000, 1000>>, <<1000, 2152>>, <<1000, 4454>>,
      <<7908, 1000>>, <<7908, 2152>>, <<7908, 4454>>, <<INT_MAX, INT_MAX>> }

ExtremeCostPairs == { <<1000, 1000>>, <<INT_MAX, INT_MAX>> }

Lids == {GetLastNameId, GetFirstNameId, OtherId}

\* The surface text no accepted candidate had yet: seen_ holds value 1 or
\* not, and the values 2, 3, ... in the order of their acceptance.
FreshValue(seen) == 2 + Cardinality(seen \ {1})

Cand(v, costs, lid, nodes, lt) ==
    [value |-> v, cost |-> costs[1], structure_cost |-> costs[2], lid |-> lid,
     nodes |-> nodes, learning_type |-> lt]

\* One-unit candidate of ordinary cost with a new surface text.
PlainCandidate(fresh) ==
    Cand(fresh, <<1000, 1000>>, OtherId, <<Node(OtherId, OtherId)>>, {})

ContextSensitiveCandidates(fresh) ==
    { Cand(v, costs, OtherId, PlainNodes, {CONTEXT_SENSITIVE}) :
        v \in {1, 2, fresh}, costs \in ExtremeCostPairs }

SingleSegmentCandidates(fresh) ==
    { Cand(v, costs, OtherId, <<Node(OtherId, OtherId)>>, {}) :
        v \in {1, 2, fresh}, costs \in ExtremeCostPairs }

SingleCharacterCandidates ==
    { Cand(1, costs, OtherId, nodes, {}) :
        costs \in ExtremeCostPairs, nodes \in {PlainNodes, NoisyNodes} }

\* Several units and several characters; an already seen text is fed with
\* the extreme costs only.
CompoundCandidates(fresh) ==
    { Cand(fresh, costs, lid, nodes, {}) :
        costs \in CostPairs, lid \in Lids, nodes \in {PlainNodes, NoisyNodes} }
    \cup { Cand(2, costs, OtherId, PlainNodes, {}) : costs \in ExtremeCostPairs }

ProbedRanks == {0, 3, kStopEnmerationCacheSize, kMaxCandidatesSize - 1}

Probed(size) ==
    \E r \in ProbedRanks : size - r <= ProbeWidth /\ r - size <= ProbeWidth

AllCandidates(fresh) ==
    ContextSensitiveCandidates(fresh) \cup SingleSegmentCandidates(fresh)
    \cup SingleCharacterCandidates \cup CompoundCandidates(fresh)

Candidates(seen) ==
    IF Probed(Cardinality(seen)) THEN AllCandidates(FreshValue(seen))
    ELSE {PlainCandidate(FreshValue(seen))}

\* The operations.
\* CandidateFilter::CandidateFilter()
Init ==
    /\ seen_ = {}
    /\ top_candidate_ = NULL
    /\ op = "CandidateFilter"
    /\ candidate = NULL
    /\ result = NO_RESULT
    /\ candidate_size = 0
    /\ was_seen = FALSE
    /\ accepted_count = 0

\* Mutant: Reset clears seen_ and keeps the baseline.
Reset_KeepsTop ==
    /\ seen_' = {}
    /\ top_candidate_' = top_candidate_
    /\ op' = "Reset"
    /\ candidate' = NULL
    /\ result' = NO_RESULT
    /\ candidate_size' = Cardinality(seen_)
    /\ was_seen' = FALSE
    /\ accepted_count' = 0

\* CandidateFilter::Reset()
Reset ==
    /\ seen_' = {}
    /\ top_candidate_' = NULL
    /\ op' = "Reset"
    /\ candidate' = NULL
    /\ result' = NO_RESULT
    /\ candidate_size' = Cardinality(seen_)
    /\ was_seen' = FALSE
    /\ accepted_count' = 0

\* Mutant: the value is inserted whatever the verdict.
FilterCandidate_AlwaysInserts ==
    /\ accepted_count < kMaxCandidatesSize + ExtraAccepts
    /\ \E c \in Candidates(seen_) : \E wrap \in Builds(seen_, top_candidate_, c) :
         \E r \in {FilterCandidateInternal(seen_, top_candidate_, c, wrap)} :
            /\ (IsContextSensitive(c) /\ c.value \in seen_)
                   => accepted_count - Cardinality(seen_) < MaxDupAccepts
            /\ top_candidate_' = r.top
            /\ seen_' = seen_ \cup {c.value}
            /\ accepted_count' = IF r.result = GOOD_CANDIDATE
                                 THEN accepted_count + 1
                                 ELSE accepted_count
            /\ op' = "FilterCandidate"
            /\ candidate' = c
            /\ result' = r.result
            /\ candidate_size' = Cardinality(seen_)
            /\ was_seen' = (c.value \in seen_)

\* CandidateFilter::FilterCandidate(candidate)
FilterCandidate ==
    /\ accepted_count < kMaxCandidatesSize + ExtraAccepts
    /\ \E c \in Candidates(seen_) : \E wrap \in Builds(seen_, top_candidate_, c) :
         \E r \in {FilterCandidateInternal(seen_, top_candidate_, c, wrap)} :
            /\ (IsContextSensitive(c) /\ c.value \in seen_)
                   => accepted_count - Cardinality(seen_) < MaxDupAccepts
            /\ top_candidate_' = r.top
            /\ seen_' = IF r.result = GOOD_CANDIDATE
                        THEN seen_ \cup {c.value}
                        ELSE seen_
            /\ accepted_count' = IF r.result = GOOD_CANDIDATE
                                 THEN accepted_count + 1
                                 ELSE accepted_count
            /\ op' = "FilterCandidate"
            /\ candidate' = c
            /\ result' = r.result
            /\ candidate_size' = Cardinality(seen_)
            /\ was_seen' = (c.value \in seen_)

Next == Reset \/ FilterCandidate

Spec == Init /\ [][Next]_vars

\* ------------------------------------------------------------------------
\* Vocabulary of the properties: what the last call was given, read from the
\* fields of the candidate.
Called == op = "FilterCandidate"

FlaggedContextSensitive == CONTEXT_SENSITIVE \in candidate.learning_type

OneCharacter == CharsLen(Text(candidate.value)) = 1

SeveralUnits == Len(candidate.nodes) > 1

NameLid == candidate.lid \in {GetLastNameId, GetFirstNameId}

NoisyPrefixPattern ==
    /\ candidate.nodes[1].lid = candidate.nodes[1].rid
    /\ candidate.nodes[1].lid = NounPrefixId

BelowCap == candidate_size + 1 < kMaxCandidatesSize

\* Called on a candidate that passes the bypass, the cap, the duplicate
\* rule and the one-unit and one-character rules.
Compound ==
    /\ Called
    /\ ~FlaggedContextSensitive
    /\ BelowCap
    /\ ~was_seen
    /\ SeveralUnits
    /\ ~OneCharacter

\* The baseline costs used by the last call.
TopCost == max(kMinCost, top_candidate_.cost)

TopStructureCost == max(kMinCost, top_candidate_.structure_cost)

\* C1: no two calls between two Resets that return GOOD_CANDIDATE have the
\* same surface text: a call that returns GOOD_CANDIDATE was given a value
\* that was not in seen_, the set of the values accepted so far.
C1_NoDuplicateAcceptance ==
    (Called /\ result = GOOD_CANDIDATE) => ~was_seen

\* C2: within a request top_candidate_ is assigned at most once: once it
\* is set, no call of FilterCandidate changes it.
C2_BaselineAssignedOnce ==
    [][(top_candidate_ # NULL /\ op' = "FilterCandidate")
          => top_candidate_' = top_candidate_]_vars

\* C3 as stated: once 200 candidates have been accepted since the last
\* Reset, the next call returns STOP_ENUMERATION for every candidate.
C3_StopAfter200Accepted ==
    [][(accepted_count >= kMaxCandidatesSize /\ op' = "FilterCandidate")
          => result' = STOP_ENUMERATION]_vars

\* C3 amended: when seen_ holds kMaxCandidatesSize - 1 = 199 or more
\* surface texts, a call on a candidate that is not context-sensitive
\* returns STOP_ENUMERATION whatever the candidate's cost and other fields.
C3_StopAtCap ==
    (Called /\ ~FlaggedContextSensitive /\ ~BelowCap)
        => result = STOP_ENUMERATION

C3_Witness ==
    /\ Called
    /\ ~FlaggedContextSensitive
    /\ candidate_size >= kMaxCandidatesSize - 1
    /\ Len(candidate.nodes) = 1
    /\ candidate.cost = 1000
    /\ ~was_seen
    /\ result = STOP_ENUMERATION

\* C4 as stated: a call on a candidate whose surface text has exactly one
\* character returns GOOD_CANDIDATE in every state.
C4_SingleCharacterAlwaysGood ==
    (Called /\ OneCharacter) => result = GOOD_CANDIDATE

\* C4 amended: a call on a one-character candidate returns GOOD_CANDIDATE
\* whatever its cost, structure cost and units, when the candidate is
\* context-sensitive, or when its text is not yet in seen_ and seen_ holds
\* fewer than 199 texts.
C4_SingleCharacterGood ==
    (Called /\ OneCharacter /\ (FlaggedContextSensitive \/ (BelowCap /\ ~was_seen)))
        => result = GOOD_CANDIDATE

C4_Witness ==
    /\ Called
    /\ OneCharacter
    /\ ~FlaggedContextSensitive
    /\ SeveralUnits
    /\ NoisyPrefixPattern
    /\ candidate.cost = INT_MAX
    /\ candidate.structure_cost = INT_MAX
    /\ candidate_size >= kStopEnmerationCacheSize
    /\ top_candidate_.cost = 1000
    /\ result = GOOD_CANDIDATE

\* C5: a compound candidate whose lid is the last-name or the first-name
\* id, that is no noisy-prefix pattern and whose structure cost is at most
\* the baseline's plus 3453 (a sum within the int range), is accepted
\* whatever its cost: the cost-offset rule never rejects it and never stops
\* the enumeration.
C5_NameExemption ==
    (/\ Compound
     /\ NameLid
     /\ ~NoisyPrefixPattern
     /\ TopStructureCost <= INT_MAX - kStructureCostOffset
     /\ candidate.structure_cost <= TopStructureCost + kStructureCostOffset)
        => result = GOOD_CANDIDATE

\* C6: after Reset, seen_ is empty and top_candidate_ is unset, as after
\* construction, and every candidate gets the verdict and leaves the
\* baseline it would on a newly constructed filter.
C6_ResetRestoresInitialState ==
    op = "Reset" =>
        /\ seen_ = {}
        /\ top_candidate_ = NULL
        /\ \A c \in AllCandidates(2), wrap \in BOOLEAN :
              FilterCandidateInternal(seen_, top_candidate_, c, wrap)
                  = FilterCandidateInternal({}, NULL, c, wrap)

C6_Witness ==
    /\ op = "Reset"
    /\ candidate_size >= kMaxCandidatesSize
    /\ seen_ = {}
    /\ top_candidate_ = NULL

\* C7: the number of calls that returned GOOD_CANDIDATE since the last
\* Reset equals the number of elements of seen_.
C7_AcceptedCountIsSeenSize ==
    accepted_count = Cardinality(seen_)

\* C8: a call on a candidate with the CONTEXT_SENSITIVE flag returns
\* GOOD_CANDIDATE and leaves top_candidate_ as it was, whatever the cost,
\* the surface text and the number of candidates accepted.
C8_ContextSensitiveBypass ==
    [][(op' = "FilterCandidate"
          /\ CONTEXT_SENSITIVE \in candidate'.learning_type)
          => (result' = GOOD_CANDIDATE /\ top_candidate_' = top_candidate_)]_vars

C8_Witness ==
    /\ Called
    /\ FlaggedContextSensitive
    /\ candidate.cost = INT_MAX
    /\ candidate_size >= kMaxCandidatesSize - 1
    /\ was_seen
    /\ result = GOOD_CANDIDATE

\* C9 as stated: the surface text of a candidate for which BAD_CANDIDATE
\* was returned is not in seen_.
C9_RejectedNotInSeen ==
    (Called /\ result = BAD_CANDIDATE) => candidate.value \notin seen_

\* C9 amended: a call that returns BAD_CANDIDATE adds nothing to seen_:
\* seen_ keeps its size and holds the rejected candidate's surface text
\* after the call exactly when it held it before the call.
C9_RejectAddsNothing ==
    (Called /\ result = BAD_CANDIDATE)
        => /\ Cardinality(seen_) = candidate_size
           /\ (candidate.value \in seen_) = was_seen

C9_Witness ==
    /\ Called
    /\ result = BAD_CANDIDATE
    /\ ~was_seen
    /\ candidate.value \notin seen_
    /\ seen_ # {}

\* C10: a compound candidate that is no name and no noisy-prefix pattern,
\* with max(100, top.cost) + 6907 < cost and max(100, top.structure_cost) +
\* 1151 < structure_cost, gets BAD_CANDIDATE while seen_ holds fewer than 15
\* texts and STOP_ENUMERATION with 15 to 198 texts.
C10_CostOffsetRejectOrStop ==
    (/\ Compound
     /\ ~NameLid
     /\ ~NoisyPrefixPattern
     /\ TopCost < candidate.cost - kCostOffset
     /\ TopStructureCost < candidate.structure_cost - kMinStructureCostOffset)
        => result = (IF candidate_size < kStopEnmerationCacheSize
                     THEN BAD_CANDIDATE
                     ELSE STOP_ENUMERATION)

C10_Witness ==
    /\ Compound
    /\ ~NameLid
    /\ ~NoisyPrefixPattern
    /\ top_candidate_.cost = 1000
    /\ top_candidate_.structure_cost = 1000
    /\ candidate.cost = 7908
    /\ candidate.structure_cost = 2152
    /\ candidate_size = kStopEnmerationCacheSize
    /\ result = STOP_ENUMERATION

\* C11: a candidate that is not context-sensitive, has exactly one unit
\* and a surface text that is not in seen_, classified while seen_ holds
\* fewer than 199 texts, is accepted whatever its costs and the rank.
C11_AtomicCandidateGood ==
    (/\ Called
     /\ ~FlaggedContextSensitive
     /\ BelowCap
     /\ ~was_seen
     /\ Len(candidate.nodes) = 1)
        => result = GOOD_CANDIDATE

C11_Witness ==
    /\ Called
    /\ ~FlaggedContextSensitive
    /\ Len(candidate.nodes) = 1
    /\ ~OneCharacter
    /\ candidate.cost = INT_MAX
    /\ candidate.structure_cost = INT_MAX
    /\ top_candidate_.cost = 1000
    /\ candidate_size >= kStopEnmerationCacheSize
    /\ result = GOOD_CANDIDATE

\* C12: seen_ is the record of the acceptances: Reset empties it, a call
\* that returns BAD_CANDIDATE or STOP_ENUMERATION leaves it unchanged, and
\* a call that returns GOOD_CANDIDATE adds the candidate's surface text and
\* nothing else.
C12_SeenRecordsAcceptances ==
    [][/\ op' = "Reset" => seen_' = {}
       /\ op' = "FilterCandidate" =>
            seen_' = (IF result' = GOOD_CANDIDATE
                      THEN seen_ \cup {candidate'.value}
                      ELSE seen_)]_vars

C12_Witness ==
    /\ Called
    /\ ~FlaggedContextSensitive
    /\ SeveralUnits
    /\ result = GOOD_CANDIDATE
    /\ ~was_seen
    /\ candidate.value \in seen_
    /\ Cardinality(seen_) = candidate_size + 1
    /\ candidate_size >= 3

\* The comparisons of the early-rank rule and of the cost-offset rule as
\* the documentation states them, over the integers: a name has the offset
\* INT_MAX, which no cost exceeds.
EarlyRankLenient ==
    /\ candidate_size < 3
    /\ candidate.cost - 2302 < TopCost
    /\ candidate.structure_cost < 6907

CostOffsetExceeded ==
    /\ ~NameLid
    /\ TopCost < candidate.cost - kCostOffset
    /\ TopStructureCost < candidate.structure_cost - kMinStructureCostOffset

StructureCostExceeded ==
    TopStructureCost < candidate.structure_cost - kStructureCostOffset

C14_CapIsSticky ==
    [][op' = "FilterCandidate" =>
         /\ seen_ \subseteq seen_'
         /\ (/\ Cardinality(seen_) >= kMaxCandidatesSize - 1
             /\ CONTEXT_SENSITIVE \notin candidate'.learning_type)
               => (result' = STOP_ENUMERATION /\ seen_' = seen_)
         /\ (/\ result' = GOOD_CANDIDATE
             /\ CONTEXT_SENSITIVE \notin candidate'.learning_type)
               => /\ Cardinality(seen_') = Cardinality(seen_) + 1
                  /\ Cardinality(seen_') <= kMaxCandidatesSize - 1]_vars

C14_Witness ==
    /\ Called
    /\ ~FlaggedContextSensitive
    /\ Len(candidate.nodes) = 1
    /\ ~was_seen
    /\ candidate_size >= kMaxCandidatesSize
    /\ Cardinality(seen_) = candidate_size
    /\ result = STOP_ENUMERATION

\* Costs for which no sum of a baseline cost and one of the fixed offsets
\* 2302, 6907, 1151 and 3453 passes INT_MAX.
CostsInRange(cost, structure_cost) ==
    /\ max(kMinCost, cost) <= INT_MAX - kCostOffset
    /\ max(kMinCost, structure_cost) <= INT_MAX - kStructureCostOffset

\* C15: a candidate that is not context-sensitive and is classified while
\* seen_ is empty becomes the baseline and is accepted, for every lid and
\* unit count and for all costs within the range where the sums do not
\* overflow; hence a baseline within that range is never in place while
\* seen_ is empty, and the branch candidate_size == 0 never replaces one.
C15_BaselineAccepted ==
    /\ (/\ Called
        /\ ~FlaggedContextSensitive
        /\ candidate_size = 0
        /\ CostsInRange(candidate.cost, candidate.structure_cost))
          => /\ result = GOOD_CANDIDATE
             /\ top_candidate_ = [cost |-> candidate.cost,
                                  structure_cost |-> candidate.structure_cost]
    /\ (top_candidate_ # NULL /\ seen_ = {})
          => ~CostsInRange(top_candidate_.cost, top_candidate_.structure_cost)

C15_Witness ==
    /\ Called
    /\ ~FlaggedContextSensitive
    /\ candidate_size = 0
    /\ SeveralUnits
    /\ ~OneCharacter
    /\ NameLid
    /\ NoisyPrefixPattern
    /\ candidate.cost = 7908
    /\ candidate.structure_cost = 4454
    /\ result = GOOD_CANDIDATE
    /\ top_candidate_.cost = 7908
    /\ seen_ = {candidate.value}

\* C16: while seen_ holds fewer than 3 texts, a compound candidate with
\* cost < max(100, top.cost) + 2302 and structure_cost < 6907 is accepted,
\* also when its structure cost exceeds the baseline's plus 3453 and when
\* it is a noisy-prefix pattern; with 3 or more texts the same candidate is
\* not accepted when it is such a pattern or exceeds that threshold.
C16_EarlyRankLeniency ==
    /\ (Compound /\ EarlyRankLenient) => result = GOOD_CANDIDATE
    /\ (/\ Compound
        /\ candidate_size >= 3
        /\ candidate.cost - 2302 < TopCost
        /\ candidate.structure_cost < 6907
        /\ (NoisyPrefixPattern \/ StructureCostExceeded))
          => result # GOOD_CANDIDATE

\* The candidate of the last call with the lid of its first unit changed,
\* so that it is no noisy-prefix pattern.
WithoutPattern ==
    [candidate EXCEPT !.nodes[1] = Node(OtherId, candidate.nodes[1].rid)]

\* C17: a compound candidate whose first unit has lid = rid and a
\* noun-prefix lid gets BAD_CANDIDATE whenever seen_ holds at least 3 and
\* fewer than 199 texts, whatever its costs and also when it is a name;
\* with fewer than 3 texts the pattern rejects nothing: such a candidate is
\* rejected only if it is rejected without the pattern as well.
C17_NoisyPrefixDemotion ==
    /\ (Compound /\ NoisyPrefixPattern /\ candidate_size >= 3)
          => result = BAD_CANDIDATE
    /\ (/\ Compound
        /\ NoisyPrefixPattern
        /\ candidate_size < 3
        /\ result # GOOD_CANDIDATE)
          => \E wrap \in BOOLEAN :
               FilterCandidateInternal(seen_, top_candidate_,
                                       WithoutPattern, wrap).result = result

C17_Witness ==
    /\ Compound
    /\ NoisyPrefixPattern
    /\ NameLid
    /\ candidate.cost = 50
    /\ candidate.structure_cost = 50
    /\ top_candidate_.cost = 1000
    /\ candidate_size = 3
    /\ result = BAD_CANDIDATE

====
